---- MODULE Spec2Model ----
(***************************************************************************)
(* Exact (MILP) solution of the job-shop scheduling problem, as built by   *)
(* src/schedule_generator/exact_solution.py: generate_model builds the     *)
(* big-M model, solve_model hands it to the exact solver and interprets    *)
(* the outcome, get_schedule extracts the machines-by-jobs order matrix    *)
(* and validate_schedule compares a schedule with the solved start times.  *)
(*                                                                         *)
(* All times are minutes, as in the source.  The bounded sets enumerate    *)
(* them in steps of StepDays days, so that schedules longer than the       *)
(* big-M constant H (10000 minutes, about a week) fit in small bounds.     *)
(***************************************************************************)
EXTENDS Integers, Sequences, FiniteSets, TLC

VARIABLES jssp, model, pc, status, termination, exception, job_order, sc, valid,
          examined

vars == <<jssp, model, pc, status, termination, exception, job_order, sc, valid,
          examined>>

(***************************************************************************)
(* Program constants                                                       *)
(***************************************************************************)
\* H = 10e3
H == 10000

\* the factor 24 * 60 of days_till_delivery * 24 * 60
MinutesPerDay == 24 * 60

\* the value of a variable the solver has not set, and of state not yet produced
None == "None"

\* the "no job in this slot" markers of a schedule
Sentinels == {-1, -2}

(***************************************************************************)
(* Bounds of the enumerated problem instances                              *)
(***************************************************************************)
StepDays == 2
MaxDurSteps == 2
MaxSetupSteps == 1
MaxDueSteps == 2

TimeStep == StepDays * MinutesPerDay
JobIds == 0 .. 1
MachineIds == 0 .. 1
HorizonSteps == Cardinality(JobIds) * (MaxDurSteps + MaxSetupSteps)

DurValues == {k * TimeStep : k \in 1 .. MaxDurSteps}
SetupValues == {k * TimeStep : k \in 0 .. MaxSetupSteps}
\* due at the epoch, or MaxDueSteps steps after it
DayValues == {0, MaxDueSteps * StepDays}
Times == {k * TimeStep : k \in 0 .. HorizonSteps}
TardValues == {k * TimeStep : k \in 0 .. (HorizonSteps + MaxDurSteps)}

Max(a, b) == IF a >= b THEN a ELSE b

(***************************************************************************)
(* Problem instances (JobShopProblem): jobs with eligible machines and     *)
(* durations, dependencies and due days; machines; setup-time matrix.      *)
(***************************************************************************)
AvailSpace == UNION {[E -> DurValues] : E \in SUBSET MachineIds}

Acyclic(deps) ==
    \E rank \in [JobIds -> 0 .. (Cardinality(JobIds) - 1)] :
        \A j \in JobIds : \A d \in deps[j] : rank[d] < rank[j]

DepSpace ==
    {deps \in [JobIds -> SUBSET JobIds] :
        (\A j \in JobIds : j \notin deps[j]) /\ Acyclic(deps)}

SetupSpace ==
    {s \in [JobIds -> [JobIds -> SetupValues]] : \A j \in JobIds : s[j][j] = 0}

ProblemSpace ==
    {[jobs |-> [j \in JobIds |->
                   [available_machines |-> av[j],
                    dependencies |-> deps[j],
                    days_till_delivery |-> days[j]]],
      machines |-> MachineIds,
      setup_times |-> s] :
        av \in [JobIds -> AvailSpace], deps \in DepSpace,
        days \in [JobIds -> DayValues], s \in SetupSpace}

NoProblem == [jobs |-> <<>>, machines |-> {}, setup_times |-> <<>>]

(***************************************************************************)
(* pyo.quicksum: the sum of f[x] over the terms x of S; the empty sum is   *)
(* the plain number 0.                                                     *)
(***************************************************************************)
RECURSIVE quicksum(_, _)
quicksum(S, f) ==
    IF S = {} THEN 0
    ELSE LET x == CHOOSE y \in S : TRUE
         IN  f[x] + quicksum(S \ {x}, f)

available_machines(j) == jssp.jobs[j].available_machines

\* the machines of the generator "for machine in m.machines if machine in
\* jssp.jobs[j].available_machines"
EligibleIn(m, j) == {machine \in m.machines : machine \in DOMAIN available_machines(j)}

\* sum of alpha[j, machine] * duration over the eligible machines of j
AssignedDuration(m, j) ==
    quicksum(EligibleIn(m, j),
             [machine \in EligibleIn(m, j) |->
                 m.alpha[<<j, machine>>] * available_machines(j)[machine]])

(***************************************************************************)
(* The constraint rules of generate_model.  A rule yields a relation over  *)
(* the variable values of a model m, or Constraint.Skip; for each rule the *)
(* condition under which a constraint is generated and the relation it     *)
(* yields are separate definitions.  jssp is captured by the rules.        *)
(***************************************************************************)
due_minutes(j) == jssp.jobs[j].days_till_delivery * 24 * 60

\* faulty variant: the duration term is left out
calculate_tardiness_no_duration(m, j) ==
    m.tardiness[j] >= m.t[j] - due_minutes(j)

\* tardiness[j] >= t[j] + assigned duration - due date (one-sided)
calculate_tardiness(m, j) ==
    m.tardiness[j] >= m.t[j] + AssignedDuration(m, j) - due_minutes(j)

\* quicksum over an empty generator is the number 0, so the rule returns the
\* Python value (0 == 1) = False instead of a relation: Constraint rejects
\* a trivial Boolean with a ValueError while the model is being built.
one_machine_per_job_trivial(m, j) == EligibleIn(m, j) = {}

\* the assignment indicators of j over its eligible machines sum to 1
one_machine_per_job(m, j) ==
    quicksum(EligibleIn(m, j),
             [machine \in EligibleIn(m, j) |-> m.alpha[<<j, machine>>]]) = 1

\* faulty variant: the lockout of ineligible machines is never generated
alpha_zero_never_generated(j, machine) == FALSE

alpha_zero_if_not_available_generated(j, machine) ==
    machine \notin DOMAIN available_machines(j)

alpha_zero_if_not_available(m, j, machine) == m.alpha[<<j, machine>>] = 0

precedence_order_generated(j1, j2) ==
    /\ Cardinality(jssp.jobs[j1].dependencies) > 0
    /\ j2 \in jssp.jobs[j1].dependencies

\* faulty variant: the duration of the dependency is left out
precedence_order_no_duration(m, j1, j2) == m.t[j1] >= m.t[j2]

precedence_order(m, j1, j2) == m.t[j1] >= m.t[j2] + AssignedDuration(m, j2)

no_overlapping_skipped(j1, j2, machine) ==
    \/ j1 = j2
    \/ machine \notin DOMAIN available_machines(j1)
    \/ machine \notin DOMAIN available_machines(j2)

\* faulty variant: the constant 3 of no_overlapping_2 in place of 2
no_overlapping_1_relaxed(m, j1, j2, machine) ==
    m.t[j1] >= m.t[j2]
               + available_machines(j2)[machine]
               + jssp.setup_times[j2][j1]
               - (3 - m.alpha[<<j1, machine>>] - m.alpha[<<j2, machine>>]
                    + m.beta[<<j1, j2>>]) * H

no_overlapping_1(m, j1, j2, machine) ==
    m.t[j1] >= m.t[j2]
               + available_machines(j2)[machine]
               + jssp.setup_times[j2][j1]
               - (2 - m.alpha[<<j1, machine>>] - m.alpha[<<j2, machine>>]
                    + m.beta[<<j1, j2>>]) * H

no_overlapping_2(m, j1, j2, machine) ==
    m.t[j2] >= m.t[j1]
               + available_machines(j1)[machine]
               + jssp.setup_times[j1][j2]
               - (3 - m.alpha[<<j1, machine>>] - m.alpha[<<j2, machine>>]
                    - m.beta[<<j1, j2>>]) * H

\* sum of the tardiness variables
objective(m) == quicksum(m.jobs, m.tardiness)

(***************************************************************************)
(* generate_model: sets, variables (alpha initialised to 0, the others     *)
(* without a value) and the index sets of the generated constraints.       *)
(***************************************************************************)
NoModel ==
    [jobs |-> {}, machines |-> {}, t |-> <<>>, alpha |-> <<>>, beta |-> <<>>,
     tardiness |-> <<>>, constraints |-> <<>>]

generate_model ==
    LET jobs == DOMAIN jssp.jobs
        machines == jssp.machines
    IN  [jobs |-> jobs,
         machines |-> machines,
         t |-> [j \in jobs |-> None],
         alpha |-> [p \in jobs \X machines |-> 0],
         beta |-> [p \in jobs \X jobs |-> None],
         tardiness |-> [j \in jobs |-> None],
         constraints |->
            [calculate_tardiness |-> jobs,
             one_machine_per_job |-> jobs,
             alpha_zero_if_not_available |->
                {p \in jobs \X machines :
                    alpha_zero_if_not_available_generated(p[1], p[2])},
             precedence_order |->
                {p \in jobs \X jobs : precedence_order_generated(p[1], p[2])},
             no_overlapping_1 |->
                {c \in jobs \X jobs \X machines :
                    ~no_overlapping_skipped(c[1], c[2], c[3])},
             no_overlapping_2 |->
                {c \in jobs \X jobs \X machines :
                    ~no_overlapping_skipped(c[1], c[2], c[3])}]]

\* a constraint rule that returns a trivial Boolean aborts the construction
BuildFails == \E j \in DOMAIN jssp.jobs : one_machine_per_job_trivial(generate_model, j)

(***************************************************************************)
(* Satisfaction of the generated constraints by the variable values of m   *)
(***************************************************************************)
AssignmentSatisfied(m) ==
    /\ \A j \in m.constraints.one_machine_per_job : one_machine_per_job(m, j)
    /\ \A p \in m.constraints.alpha_zero_if_not_available :
          alpha_zero_if_not_available(m, p[1], p[2])

PrecedenceSatisfied(m) ==
    \A p \in m.constraints.precedence_order : precedence_order(m, p[1], p[2])

NoOverlapSatisfied(m) ==
    /\ \A c \in m.constraints.no_overlapping_1 : no_overlapping_1(m, c[1], c[2], c[3])
    /\ \A c \in m.constraints.no_overlapping_2 : no_overlapping_2(m, c[1], c[2], c[3])

TardinessSatisfied(m) ==
    \A j \in m.constraints.calculate_tardiness : calculate_tardiness(m, j)

Satisfies(m) ==
    /\ AssignmentSatisfied(m)
    /\ PrecedenceSatisfied(m)
    /\ NoOverlapSatisfied(m)
    /\ TardinessSatisfied(m)

(***************************************************************************)
(* Bounded domains of the decision variables: alpha binary, t and          *)
(* tardiness non-negative, beta binary.  A variable that appears in no     *)
(* constraint is not sent to the solver and keeps no value.                *)
(***************************************************************************)
AlphaSpace(m) == [m.jobs \X m.machines -> {0, 1}]

TSpace(m) == [m.jobs -> Times]

TardSpace(m) == [m.jobs -> TardValues]

ReferencedBeta(m) ==
    {<<c[1], c[2]>> : c \in m.constraints.no_overlapping_1 \cup m.constraints.no_overlapping_2}

BetaSpace(m) ==
    {[p \in m.jobs \X m.jobs |-> IF p \in ReferencedBeta(m) THEN bb[p] ELSE None] :
        bb \in [ReferencedBeta(m) -> {0, 1}]}

\* the values of alpha and t that satisfy every constraint on them alone
AssignedModels(m) ==
    UNION {{[m EXCEPT !.alpha = a, !.t = tt] :
               tt \in {ts \in TSpace(m) :
                          PrecedenceSatisfied([m EXCEPT !.alpha = a, !.t = ts])}} :
           a \in {as \in AlphaSpace(m) : AssignmentSatisfied([m EXCEPT !.alpha = as])}}

\* the values of beta that satisfy the no-overlap constraints with those of s
OrderCompletions(s) ==
    {b \in BetaSpace(s) : NoOverlapSatisfied([s EXCEPT !.beta = b])}

\* the values of alpha, t, beta that satisfy every constraint on them
SchedulingModels(m) ==
    UNION {{[s EXCEPT !.beta = b] : b \in OrderCompletions(s)} :
           s \in AssignedModels(m)}

\* the tardiness values that complete s to a model satisfying every constraint
TardinessCompletions(s) ==
    {td \in TardSpace(s) : TardinessSatisfied([s EXCEPT !.tardiness = td])}

\* every assignment of the variables that satisfies all constraints
SatisfyingModels(m) ==
    UNION {{[s EXCEPT !.tardiness = td] : td \in TardinessCompletions(s)} :
           s \in SchedulingModels(m)}

(***************************************************************************)
(* The exact solver (solver.solve with the cplex backend).  An optimal     *)
(* termination loads a minimiser of the objective over the satisfying      *)
(* assignments into the model.  The tardiness constraints and the          *)
(* objective separate per job and do not read beta, so the least objective *)
(* among the completions of s is the sum of the least admissible           *)
(* tardiness values.                                                       *)
(***************************************************************************)
LeastTardiness(s) ==
    [j \in s.jobs |->
        LET admissible ==
                {v \in TardValues :
                    calculate_tardiness([s EXCEPT !.tardiness = [k \in s.jobs |-> v]], j)}
        IN  CHOOSE v \in admissible : \A w \in admissible : v <= w]

LeastObjective(s) == objective([s EXCEPT !.tardiness = LeastTardiness(s)])

OptimalModels(m) ==
    LET S == {s \in AssignedModels(m) : OrderCompletions(s) # {}}
        scored == {<<s, LeastObjective(s)>> : s \in S}
        least == CHOOSE v \in {p[2] : p \in scored} : \A p \in scored : v <= p[2]
    IN  UNION {{[p[1] EXCEPT !.beta = x[1], !.tardiness = x[2]] :
                   x \in OrderCompletions(p[1]) \X
                         {c \in TardinessCompletions(p[1]) :
                             objective([p[1] EXCEPT !.tardiness = c]) = least}} :
               p \in {q \in scored : q[2] = least}}

SolverStatus == {"ok", "warning", "error"}
TerminationCondition == {"optimal", "infeasible", "error"}

\* What the solver can report for the built model m: an optimum only if one
\* exists, infeasibility only if no assignment satisfies the constraints; a
\* run that ended ok has decided the model (no time limit is configured
\* and the objective is bounded below by 0).
SolverReports(m, optima) ==
    {r \in SolverStatus \X TerminationCondition :
        /\ r[2] = "optimal" => optima # {}
        /\ r[2] = "infeasible" => optima = {}
        /\ r[1] = "ok" => r[2] # "error"}

\* faulty variant: the termination condition is checked before the status
solve_model_termination_first(st, tc) ==
    IF tc # "optimal" THEN "Infeasible solution"
    ELSE IF st # "ok" THEN "Solver not ok"
    ELSE None

\* the two checks of solve_model, in order
solve_model(st, tc) ==
    IF st # "ok" THEN "Solver not ok"
    ELSE IF tc # "optimal" THEN "Infeasible solution"
    ELSE None

(***************************************************************************)
(* get_schedule: jobs in ascending start time (sorted is stable, so equal  *)
(* start times keep the order of the job indices), each appended to the    *)
(* row of the first machine whose assignment indicator is 1.               *)
(***************************************************************************)
\* faulty variant: equal keys in descending order of the job index
RECURSIVE sorted_ties_reversed(_, _)
sorted_ties_reversed(S, key) ==
    IF S = {} THEN <<>>
    ELSE LET j == CHOOSE x \in S :
                     \A y \in S : key[x] < key[y] \/ (key[x] = key[y] /\ x >= y)
         IN  <<j>> \o sorted_ties_reversed(S \ {j}, key)

RECURSIVE sorted(_, _)
sorted(S, key) ==
    IF S = {} THEN <<>>
    ELSE LET j == CHOOSE x \in S :
                     \A y \in S : key[x] < key[y] \/ (key[x] = key[y] /\ x <= y)
         IN  <<j>> \o sorted(S \ {j}, key)

\* the inner loop "for m in model.machines" from machine mach on, for job j;
\* acc holds job_order, jobs_assigned_on_machine and found
RECURSIVE PlaceJob(_, _, _, _)
PlaceJob(m, j, mach, acc) ==
    IF mach \notin m.machines THEN acc
    ELSE IF m.alpha[<<j, mach>>] = 1 /\ ~acc.found
         THEN PlaceJob(m, j, mach + 1,
                  [job_order |->
                       [acc.job_order EXCEPT ![mach][acc.assigned[mach]] = j],
                   assigned |-> [acc.assigned EXCEPT ![mach] = @ + 1],
                   found |-> TRUE])
         ELSE PlaceJob(m, j, mach + 1, acc)

\* the outer loop over the sorted jobs, from position i on
RECURSIVE PlaceAll(_, _, _, _)
PlaceAll(m, order, i, acc) ==
    IF i > Len(order) THEN acc
    ELSE PlaceAll(m, order, i + 1,
                  PlaceJob(m, order[i], 0, [acc EXCEPT !.found = FALSE]))

get_schedule(m) ==
    LET n == Cardinality(m.jobs)
        empty == [job_order |-> [mach \in m.machines |-> [k \in 0 .. (n - 1) |-> -2]],
                  assigned |-> [mach \in m.machines |-> 0],
                  found |-> FALSE]
    IN  PlaceAll(m, sorted(m.jobs, m.t), 1, empty).job_order

(***************************************************************************)
(* validate_schedule: walks the triples (job_idx, start_time, end_time)    *)
(* machine by machine, skips the sentinels and returns False at the first  *)
(* start time that differs from the model's.  examined counts the triples  *)
(* read before returning.                                                  *)
(***************************************************************************)
RECURSIVE Items(_, _)
Items(schedule, mach) ==
    IF mach \notin DOMAIN schedule THEN <<>>
    ELSE schedule[mach] \o Items(schedule, mach + 1)

\* faulty variant: the end time of the triple is compared
RECURSIVE ValidateFrom_end_time(_, _, _)
ValidateFrom_end_time(m, triples, i) ==
    IF i > Len(triples) THEN [verdict |-> TRUE, examined |-> Len(triples)]
    ELSE IF triples[i][1] \in {-1, -2} THEN ValidateFrom_end_time(m, triples, i + 1)
    ELSE IF m.t[triples[i][1]] # triples[i][3] THEN [verdict |-> FALSE, examined |-> i]
    ELSE ValidateFrom_end_time(m, triples, i + 1)

RECURSIVE ValidateFrom(_, _, _)
ValidateFrom(m, triples, i) ==
    IF i > Len(triples) THEN [verdict |-> TRUE, examined |-> Len(triples)]
    ELSE IF triples[i][1] \in {-1, -2} THEN ValidateFrom(m, triples, i + 1)
    ELSE IF m.t[triples[i][1]] # triples[i][2] THEN [verdict |-> FALSE, examined |-> i]
    ELSE ValidateFrom(m, triples, i + 1)

validate_schedule(m, schedule) == ValidateFrom(m, Items(schedule, 0), 1)

(***************************************************************************)
(* jssp.make_schedule_from_parallel (external collaborator): the schedule  *)
(* of a job order lists, per machine, the jobs of the row in order with    *)
(* the start times start the collaborator computes and the matching ends.  *)
(***************************************************************************)
RECURSIVE RowTriples(_, _, _, _)
RowTriples(row, k, mach, start) ==
    IF k \notin DOMAIN row \/ row[k] \in Sentinels THEN <<>>
    ELSE <<<<row[k], start[row[k]],
             start[row[k]] + available_machines(row[k])[mach]>>>>
         \o RowTriples(row, k + 1, mach, start)

\* the start times the collaborator may record: the solver's, or a later one
StartChoices(m) ==
    {st \in [m.jobs -> Times \cup {TimeStep + x : x \in Times}] :
        \A j \in m.jobs : st[j] \in {m.t[j], m.t[j] + TimeStep}}

make_schedule_from_parallel(order, start) ==
    [mach \in DOMAIN order |-> RowTriples(order[mach], 0, mach, start)]

(***************************************************************************)
(* The pipeline of __main__: generate_model, solve_model, get_schedule,    *)
(* make_schedule_from_parallel, validate_schedule.  An exception ends it.  *)
(***************************************************************************)
Init ==
    /\ jssp \in ProblemSpace
    /\ model = NoModel
    /\ pc = "start"
    /\ status = None
    /\ termination = None
    /\ exception = None
    /\ job_order = None
    /\ sc = None
    /\ valid = None
    /\ examined = None

GenerateModel ==
    /\ pc = "start"
    /\ IF BuildFails
       THEN /\ pc' = "build_error"
            /\ exception' = "ValueError"
            /\ model' = model
       ELSE /\ pc' = "built"
            /\ exception' = exception
            /\ model' = generate_model
    /\ UNCHANGED <<jssp, status, termination, job_order, sc, valid, examined>>

SolveModel ==
    /\ pc = "built"
    /\ \E optima \in {OptimalModels(model)} :
          \E r \in SolverReports(model, optima) :
              /\ status' = r[1]
              /\ termination' = r[2]
              /\ IF r[2] = "optimal" THEN model' \in optima ELSE model' = model
              /\ exception' = solve_model(r[1], r[2])
              /\ pc' = IF solve_model(r[1], r[2]) = None THEN "solved" ELSE "failed"
    /\ UNCHANGED <<jssp, job_order, sc, valid, examined>>

GetSchedule ==
    /\ pc = "solved"
    /\ job_order' = get_schedule(model)
    /\ pc' = "extracted"
    /\ UNCHANGED <<jssp, model, status, termination, exception, sc, valid, examined>>

MakeSchedule ==
    /\ pc = "extracted"
    /\ \E start \in StartChoices(model) :
          sc' = make_schedule_from_parallel(job_order, start)
    /\ pc' = "scheduled"
    /\ UNCHANGED <<jssp, model, status, termination, exception, job_order, valid,
                   examined>>

ValidateSchedule ==
    /\ pc = "scheduled"
    /\ valid' = validate_schedule(model, sc).verdict
    /\ examined' = validate_schedule(model, sc).examined
    /\ pc' = "done"
    /\ UNCHANGED <<jssp, model, status, termination, exception, job_order, sc>>

Next == GenerateModel \/ SolveModel \/ GetSchedule \/ MakeSchedule \/ ValidateSchedule

Spec == Init /\ [][Next]_vars

\* the model builder alone
SpecBuild == Init /\ [][GenerateModel]_vars

(***************************************************************************)
(* Schedules of a problem instance, as the problem statement defines them: *)
(* every job on one eligible machine, dependencies respected, one job at a *)
(* time per machine, the setup time between a job and its immediate        *)
(* successor on the same machine.                                          *)
(***************************************************************************)
Duration(j, mach) == jssp.jobs[j].available_machines[mach]

DueMinutes(j) == jssp.jobs[j].days_till_delivery * MinutesPerDay

\* the machine whose assignment indicator for j is 1
AssignedMachine(m, j) == CHOOSE mach \in m.machines : m.alpha[<<j, mach>>] = 1

ImmediateSuccessor(on, st, j1, j2) ==
    /\ j1 # j2 /\ on[j1] = on[j2] /\ st[j1] < st[j2]
    /\ ~\E j3 \in DOMAIN on \ {j1, j2} :
           on[j3] = on[j1] /\ st[j1] < st[j3] /\ st[j3] < st[j2]

Follows(on, st, j1, j2) ==
    st[j2] >= st[j1] + Duration(j1, on[j1])
              + (IF ImmediateSuccessor(on, st, j1, j2)
                 THEN jssp.setup_times[j1][j2] ELSE 0)

ValidSchedule(on, st) ==
    /\ \A j \in DOMAIN on : on[j] \in DOMAIN jssp.jobs[j].available_machines
    /\ \A j1 \in DOMAIN on : \A j2 \in jssp.jobs[j1].dependencies :
          st[j1] >= st[j2] + Duration(j2, on[j2])
    /\ \A j1, j2 \in DOMAIN on :
          (j1 # j2 /\ on[j1] = on[j2])
              => (Follows(on, st, j1, j2) \/ Follows(on, st, j2, j1))

ValidSchedules ==
    {x \in [DOMAIN jssp.jobs -> jssp.machines] \X [DOMAIN jssp.jobs -> Times] :
        ValidSchedule(x[1], x[2])}

TotalTardiness(on, st) ==
    quicksum(DOMAIN on,
             [j \in DOMAIN on |-> Max(0, st[j] + Duration(j, on[j]) - DueMinutes(j))])

Returned == pc \in {"solved", "extracted", "scheduled", "done"}

(***************************************************************************)
(* C1: whenever the solver has run without an internal error, the          *)
(* pipeline succeeds (solve_model returns the model) exactly when the      *)
(* instance has a valid schedule, and on success the objective equals the  *)
(* minimum total tardiness over all valid schedules; a build that fails    *)
(* does so only for an instance without a valid schedule.                  *)
(***************************************************************************)
C1_OptimalOrInfeasible ==
    /\ pc = "build_error" => ValidSchedules = {}
    /\ (pc \in {"solved", "failed"} /\ status = "ok") =>
          /\ (exception = None) <=> (ValidSchedules # {})
          /\ exception = None =>
                \A x \in ValidSchedules : objective(model) <= TotalTardiness(x[1], x[2])
          /\ exception = None =>
                \E x \in ValidSchedules : objective(model) = TotalTardiness(x[1], x[2])

(***************************************************************************)
(* C5: in every solution solve_model returns, the tardiness of every job   *)
(* equals max(0, start + duration on the assigned machine - due minutes).  *)
(***************************************************************************)
C5_TardinessExact ==
    Returned =>
        \A j \in model.jobs :
            model.tardiness[j] =
                Max(0, model.t[j] + Duration(j, AssignedMachine(model, j)) - DueMinutes(j))

\* a returned solution with one late job and one job finished before its due date
C5_Witness ==
    /\ pc = "solved"
    /\ \E j \in model.jobs : model.tardiness[j] > 0
    /\ \E j \in model.jobs :
          /\ model.tardiness[j] = 0
          /\ model.t[j] + Duration(j, AssignedMachine(model, j)) < DueMinutes(j)

(***************************************************************************)
(* C6: solve_model checks the execution status first and the termination   *)
(* condition second: a status other than ok raises "Solver not ok"         *)
(* whatever the termination condition, ok with a termination other than    *)
(* optimal raises "Infeasible solution", only ok with optimal returns;     *)
(* after an exception no schedule is extracted, made or validated.         *)
(***************************************************************************)
C6_FailFast ==
    /\ status # None =>
          /\ status # "ok" => exception = "Solver not ok"
          /\ (status = "ok" /\ termination # "optimal") => exception = "Infeasible solution"
          /\ (status = "ok" /\ termination = "optimal") => (exception = None /\ Returned)
    /\ exception # None =>
          (job_order = None /\ sc = None /\ valid = None /\ pc \in {"build_error", "failed"})

\* a run whose status is not ok although the termination condition is optimal
C6_Witness ==
    /\ pc = "failed"
    /\ status = "warning"
    /\ termination = "optimal"
    /\ exception = "Solver not ok"

HasJobWithoutMachine ==
    \E j \in DOMAIN jssp.jobs : DOMAIN jssp.jobs[j].available_machines = {}

(***************************************************************************)
(* C7: for an instance with a job whose eligible-machine set is empty the  *)
(* model is built without an error and the solve ends as infeasible.       *)
(***************************************************************************)
C7_EmptyEligibleInfeasible ==
    HasJobWithoutMachine =>
        /\ pc # "build_error"
        /\ (pc = "failed" /\ status = "ok") =>
              (termination = "infeasible" /\ exception = "Infeasible solution")
        /\ ~Returned

SameMachine(s, mach, j1, j2) ==
    j1 # j2 /\ s.alpha[<<j1, mach>>] = 1 /\ s.alpha[<<j2, mach>>] = 1

Disjoint(s, mach, j1, j2) ==
    \/ s.t[j1] >= s.t[j2] + Duration(j2, mach) + jssp.setup_times[j2][j1]
    \/ s.t[j2] >= s.t[j1] + Duration(j1, mach) + jssp.setup_times[j1][j2]

(***************************************************************************)
(* C2: in every assignment that satisfies all constraints of the built     *)
(* model, two distinct jobs assigned to the same machine do not overlap:   *)
(* one starts no earlier than the other's start plus the other's duration  *)
(* on that machine plus the setup time from the other to it.               *)
(* (Every s below has the values of alpha, t and beta; it is an assignment *)
(* satisfying all constraints when tardiness values complete it.)          *)
(***************************************************************************)
C2_NoOverlap ==
    pc = "built" =>
        \A s \in SchedulingModels(model) :
            \/ \A mach \in s.machines : \A j1, j2 \in s.jobs :
                  SameMachine(s, mach, j1, j2) => Disjoint(s, mach, j1, j2)
            \/ TardinessCompletions(s) = {}

\* a satisfying assignment that puts both jobs on one machine
C2_Witness ==
    /\ pc = "built"
    /\ \E s \in SchedulingModels(model) :
          /\ \E mach \in s.machines : SameMachine(s, mach, 0, 1)
          /\ TardinessCompletions(s) # {}

(***************************************************************************)
(* C3: in every assignment that satisfies all constraints, a job with a    *)
(* dependency starts no earlier than the dependency's start plus the       *)
(* dependency's duration on its assigned machine; precedence constraints   *)
(* are generated for the dependency edges and for no other pair.           *)
(***************************************************************************)
C3_Precedence ==
    pc = "built" =>
        /\ model.constraints.precedence_order =
              {p \in model.jobs \X model.jobs : p[2] \in jssp.jobs[p[1]].dependencies}
        /\ \A s \in SchedulingModels(model) :
              \/ \A j1 \in s.jobs : \A j2 \in jssp.jobs[j1].dependencies :
                    s.t[j1] >= s.t[j2] + Duration(j2, AssignedMachine(s, j2))
              \/ TardinessCompletions(s) = {}

\* a satisfying assignment of an instance with a dependency edge
C3_Witness ==
    /\ pc = "built"
    /\ \E j \in model.jobs : jssp.jobs[j].dependencies # {}
    /\ \E s \in SchedulingModels(model) : TardinessCompletions(s) # {}

(***************************************************************************)
(* C4: in every assignment that satisfies all constraints, every job has   *)
(* exactly one machine with assignment indicator 1, that machine is        *)
(* eligible for the job, and the indicator is 0 on every other machine.    *)
(***************************************************************************)
C4_SingleAssignment ==
    pc = "built" =>
        \A s \in SchedulingModels(model) :
            \/ \A j \in s.jobs :
                  /\ Cardinality({mach \in s.machines : s.alpha[<<j, mach>>] = 1}) = 1
                  /\ \A mach \in s.machines :
                        s.alpha[<<j, mach>>] = 1 =>
                            mach \in DOMAIN jssp.jobs[j].available_machines
                  /\ \A mach \in s.machines :
                        mach \notin DOMAIN jssp.jobs[j].available_machines =>
                            s.alpha[<<j, mach>>] = 0
            \/ TardinessCompletions(s) = {}

\* a satisfying assignment of an instance with a job eligible on one machine only
C4_Witness ==
    /\ pc = "built"
    /\ \E j \in model.jobs : Cardinality(DOMAIN jssp.jobs[j].available_machines) = 1
    /\ \E s \in SchedulingModels(model) : TardinessCompletions(s) # {}

\* the variable values of a schedule, with beta[j1, j2] = b
AsModel(m, on, st, j1, j2, b) ==
    [m EXCEPT !.alpha = [p \in m.jobs \X m.machines |-> IF on[p[1]] = p[2] THEN 1 ELSE 0],
              !.t = st,
              !.beta = [m.beta EXCEPT ![<<j1, j2>>] = b]]

BothHold(s, j1, j2, mach) ==
    no_overlapping_1(s, j1, j2, mach) /\ no_overlapping_2(s, j1, j2, mach)

\* beta[j1, j2] = 1 selects "j1 before j2" (no_overlapping_2), 0 the converse
OrderOf(st, j1, j2) == IF st[j1] < st[j2] THEN 1 ELSE 0

(***************************************************************************)
(* C9: for every pair of distinct jobs j1, j2 sharing an eligible machine  *)
(* and every valid schedule of the instance: when one of the two is not    *)
(* assigned to that machine, both no-overlap inequalities generated for    *)
(* (j1, j2, machine) hold whatever the value of beta[j1, j2]; when both    *)
(* are assigned to it, both inequalities hold for the value of beta that   *)
(* matches the order of the two jobs (the inequality that value selects is *)
(* the binding one, the other excludes no valid schedule) and the binding  *)
(* inequality of the other value rejects the schedule.  With H = 10e3.     *)
(***************************************************************************)
C9_BigMVacuous ==
    pc = "built" =>
        \A c \in model.constraints.no_overlapping_1 : \A x \in ValidSchedules :
            LET j1 == c[1]
                j2 == c[2]
                mach == c[3]
                on == x[1]
                st == x[2]
            IN  IF on[j1] = mach /\ on[j2] = mach
                THEN /\ BothHold(AsModel(model, on, st, j1, j2, OrderOf(st, j1, j2)),
                                 j1, j2, mach)
                     /\ ~BothHold(AsModel(model, on, st, j1, j2, 1 - OrderOf(st, j1, j2)),
                                  j1, j2, mach)
                ELSE \A b \in {0, 1} :
                        BothHold(AsModel(model, on, st, j1, j2, b), j1, j2, mach)

(***************************************************************************)
(* get_schedule on its own: any solved model of MaxExtractJobs jobs whose  *)
(* start times and assignment indicators have values.                      *)
(***************************************************************************)
MaxExtractJobs == 3
MaxStartSteps == 2

ExtractJobs == 0 .. (MaxExtractJobs - 1)
StartValues == {k * TimeStep : k \in 0 .. MaxStartSteps}

SolvedModels ==
    {[NoModel EXCEPT !.jobs = ExtractJobs, !.machines = MachineIds,
                     !.t = tt, !.alpha = a] :
        tt \in [ExtractJobs -> StartValues],
        a \in [ExtractJobs \X MachineIds -> {0, 1}]}

InitExtract ==
    /\ jssp = NoProblem
    /\ model \in SolvedModels
    /\ pc = "solved"
    /\ status = "ok"
    /\ termination = "optimal"
    /\ exception = None
    /\ job_order = None
    /\ sc = None
    /\ valid = None
    /\ examined = None

SpecExtract == InitExtract /\ [][GetSchedule]_vars

ExactlyOneIndicator(m) ==
    \A j \in m.jobs : Cardinality({mach \in m.machines : m.alpha[<<j, mach>>] = 1}) = 1

JobsOn(m, mach) == {j \in m.jobs : m.alpha[<<j, mach>>] = 1}

(***************************************************************************)
(* C10: for a solved model in which every job has exactly one assignment   *)
(* indicator equal to 1, every job appears exactly once in the matrix, in  *)
(* the row of its assigned machine; the jobs of a row fill a prefix, in    *)
(* ascending start time (equal start times: ascending job index); every    *)
(* other slot holds -2.                                                    *)
(***************************************************************************)
C10_OrderMatrix ==
    (pc = "extracted" /\ ExactlyOneIndicator(model)) =>
        /\ DOMAIN job_order = model.machines
        /\ \A mach \in model.machines :
              /\ DOMAIN job_order[mach] = 0 .. (Cardinality(model.jobs) - 1)
              /\ \A k \in DOMAIN job_order[mach] :
                    IF k < Cardinality(JobsOn(model, mach))
                    THEN job_order[mach][k] \in JobsOn(model, mach)
                    ELSE job_order[mach][k] = -2
              /\ \A k1, k2 \in 0 .. (Cardinality(JobsOn(model, mach)) - 1) :
                    k1 < k2 =>
                        LET a == job_order[mach][k1]
                            b == job_order[mach][k2]
                        IN  \/ model.t[a] < model.t[b]
                            \/ (model.t[a] = model.t[b] /\ a < b)
        /\ \A j \in model.jobs :
              Cardinality({p \in model.machines \X (0 .. (Cardinality(model.jobs) - 1)) :
                              job_order[p[1]][p[2]] = j}) = 1

\* an extracted matrix with two jobs of equal start time in one row, followed
\* by a free slot, and a single job in another row
C10_Witness ==
    /\ pc = "extracted"
    /\ ExactlyOneIndicator(model)
    /\ \E mach \in model.machines :
          /\ Cardinality(JobsOn(model, mach)) = 2
          /\ model.t[job_order[mach][0]] = model.t[job_order[mach][1]]
          /\ job_order[mach][2] = -2
    /\ \E mach \in model.machines :
          /\ Cardinality(JobsOn(model, mach)) = 1
          /\ job_order[mach][1] = -2

(***************************************************************************)
(* validate_schedule on its own: any schedule of up to MaxSlots triples    *)
(* per machine, sentinels included, against any solved start times.        *)
(***************************************************************************)
MaxSlots == 2

\* two start values: a recorded start agrees with the model's or does not
ValidateStarts == {0, TimeStep}

Triples ==
    {<<j, st, st + TimeStep>> : j \in JobIds \cup Sentinels, st \in ValidateStarts}

Rows == UNION {[1 .. n -> Triples] : n \in 0 .. MaxSlots}

InitValidate ==
    /\ jssp = NoProblem
    /\ model \in {[NoModel EXCEPT !.jobs = JobIds, !.machines = MachineIds, !.t = tt] :
                     tt \in [JobIds -> ValidateStarts]}
    /\ pc = "scheduled"
    /\ status = "ok"
    /\ termination = "optimal"
    /\ exception = None
    /\ job_order = None
    /\ sc \in [MachineIds -> Rows]
    /\ valid = None
    /\ examined = None

SpecValidate == InitValidate /\ [][ValidateSchedule]_vars

Slots == {p \in (DOMAIN sc) \X (1 .. MaxSlots) : p[2] \in DOMAIN sc[p[1]]}

Disagrees(p) ==
    /\ sc[p[1]][p[2]][1] \notin Sentinels
    /\ model.t[sc[p[1]][p[2]][1]] # sc[p[1]][p[2]][2]

Precedes(q, p) == q[1] < p[1] \/ (q[1] = p[1] /\ q[2] < p[2])

(***************************************************************************)
(* C8: validate_schedule returns true exactly when every triple whose job  *)
(* index is not a sentinel records the model's start time of its job; it   *)
(* returns false at the first triple (machines in order, then slots in     *)
(* order) that disagrees; sentinel triples never affect the verdict.       *)
(***************************************************************************)
C8_Validate ==
    pc = "done" =>
        /\ valid = (\A p \in Slots : ~Disagrees(p))
        /\ valid = FALSE =>
              \E p \in Slots :
                  /\ Disagrees(p)
                  /\ \A q \in Slots : Precedes(q, p) => ~Disagrees(q)
                  /\ examined = Cardinality({q \in Slots : Precedes(q, p)}) + 1
        /\ valid = TRUE => examined = Cardinality(Slots)

\* a rejected schedule whose first disagreeing triple comes after a sentinel
\* triple and before further triples
C8_Witness ==
    /\ pc = "done"
    /\ valid = FALSE
    /\ examined > 1
    /\ examined < Cardinality(Slots)
    /\ \E p \in Slots : sc[p[1]][p[2]][1] \in Sentinels /\ p[1] = 0 /\ p[2] = 1

====
